---- MODULE Spec2Model ----
(***************************************************************************)
(* FedQuery: the confidence-driven retrieval / answer workflow             *)
(* (src/src/agent/graph.py, src/src/agent/nodes.py, src/src/cli/ask.py).   *)
(*                                                                         *)
(* A Python dict is a function whose DOMAIN is the set of keys present.    *)
(* An optional value is None (the empty tuple) or Some(v) (a 1-tuple).     *)
(* Relevance scores are integers in units of 1/10000.                      *)
(***************************************************************************)
EXTENDS Integers, Sequences, FiniteSets, TLC

VARIABLES
    pc,       \* the graph node about to run; "END" after respond; "raised" when
              \* an exception left graph.invoke; "returned" after a direct call
    state,    \* the AgentState dict
    calls,    \* the search_fn calls of the latest search_corpus, with their results
    triage,   \* what assess_query returned (before the graph stored it)
    trace,    \* the nodes executed so far, in order
    service,  \* the replies of the search service to the latest search_corpus
    input,    \* the state dict a directly called node was given
    llm,      \* the LLM reply a directly called node received
    settings, \* the Settings the process was started with
    client,   \* the MCPSearchClient of the search backend
    prompt    \* what the latest LLM call of the workflow was asked

vars == <<pc, state, calls, triage, trace, service, input, llm,
          settings, client, prompt>>

\* ------------------------------------------------------------------ bounds

\* Most connect and close calls made on one search client in the model.
MaxOps == 4
\* Longest result list the search provider returns in the model.
MaxResults == 2
\* Cap on the number of node executions of one run (the code has none).
MaxSteps == 14
\* Longest citation list a directly called node is given.
MaxCitations == 3
\* Most tokens in the text a directly called synthesize_answer parses.
MaxTokens == 2
\* Longest candidate list a directly called respond is given.
MaxChunks == 4

\* ------------------------------------------------------------------ values

None == <<>>
Some(v) == <<v>>

\* dict.get(key, default)
Get(d, k, default) == IF k \in DOMAIN d THEN d[k] ELSE default

\* Python truthiness of an optional string / of an optional int
TruthyStr(o) == o # None /\ o[1] # ""
TruthyInt(o) == o # None /\ o[1] # 0

Min(a, b) == IF a <= b THEN a ELSE b
Max(a, b) == IF a >= b THEN a ELSE b

Take(s, n) == SubSeq(s, 1, Min(n, Len(s)))

Range(s) == {s[i] : i \in 1..Len(s)}

\* ------------------------------------------------------------------ corpus

\* The chunks the search provider ranks.
ChunkIds == {"c1", "c2", "c3"}
\* The chunks a state given to a directly called node can hold.
DirectChunkIds == ChunkIds \cup {"c4"}

\* Cosine distance the vector store reports for a chunk, in [0, 20000].
Distance(id) ==
    CASE id = "c1" -> 7600
      [] id = "c2" -> 11800
      [] id = "c3" -> 18000
      [] OTHER     -> 13930

DocumentDate(id) ==
    CASE id = "c1" -> "2024-12-18"
      [] id = "c2" -> "2024-11-07"
      [] id = "c3" -> "2025-01-29"
      [] OTHER     -> "2024-12-18"

\* quoted_excerpt = chunk_text[:200]
ExcerptLen == 200

\* Chunk texts, as sequences of characters: c4 is longer than an excerpt.
ChunkText(id) ==
    CASE id = "c1" -> <<"r", "a", "t", "e">>
      [] id = "c2" -> <<"c", "p", "i">>
      [] id = "c3" -> <<>>
      [] OTHER     -> [i \in 1..(ExcerptLen + 3) |-> IF i <= ExcerptLen THEN "a" ELSE "b"]

\* relevance_score = max(0.0, min(1.0, 1.0 - distance / 2.0))
RelevanceScore(distance) == Max(0, Min(10000, 10000 - distance \div 2))

ChunkResult(id) ==
    [chunk_id        |-> id,
     document_name   |-> id,
     document_date   |-> DocumentDate(id),
     document_id     |-> id,
     section_header  |-> "Section",
     chunk_text      |-> ChunkText(id),
     relevance_score |-> RelevanceScore(Distance(id))]

\* Ranked lists of distinct chunks, at most n long.
Rankings(n) ==
    UNION {{s \in [1..k -> ChunkIds] : \A i, j \in 1..k : i # j => s[i] # s[j]}
           : k \in 0..n}

\* The same over the chunks of directly given states.
DirectRankings(n) ==
    UNION {{s \in [1..k -> DirectChunkIds] : \A i, j \in 1..k : i # j => s[i] # s[j]}
           : k \in 0..n}

Results(r) == [i \in 1..Len(r) |-> ChunkResult(r[i])]

\* What search_fn(query, top_k) can return: at most top_k ranked chunks.
UnfilteredResults(top_k) == {Results(r) : r \in Rankings(Min(top_k, MaxResults))}

\* What search_fn(query, top_k, where) can return: the vector store retries a
\* failed filtered query with n_results = count, so top_k need not bound it.
FilteredResults(top_k) == {Results(r) : r \in Rankings(MaxResults)}

\* ------------------------------------------------------------------ settings

\* Values of FEDQUERY_LLM_PROVIDER: the default, the default in another
\* spelling, the second supported provider, an unsupported one.
Providers == {"anthropic", "Anthropic", "google", "openai"}

\* Settings(), read from the environment.  google_api_key is the credential the
\* Google client takes from the environment itself: get_llm passes it none.
SettingsValues ==
    [fedquery_llm_provider : Providers,
     anthropic_api_key     : {"", "sk"},
     google_api_key        : {"", "gk"},
     fedquery_use_mcp      : BOOLEAN]

\* The defaults of Settings with the Anthropic key set.
ValidSettings ==
    [fedquery_llm_provider |-> "anthropic", anthropic_api_key |-> "sk",
     google_api_key |-> "", fedquery_use_mcp |-> TRUE]

\* str.lower()
Lower(s) == IF s = "Anthropic" THEN "anthropic" ELSE s

\* get_llm(): the credential of the client it builds, or the ValueError for an
\* unsupported provider.  No timeout is given to either client.
get_llm(cfg) ==
    LET provider == Lower(cfg.fedquery_llm_provider)
    IN  IF provider = "anthropic"
        THEN [raised |-> FALSE, api_key |-> cfg.anthropic_api_key, timeout |-> None]
        ELSE IF provider = "google"
        THEN [raised |-> FALSE, api_key |-> cfg.google_api_key, timeout |-> None]
        ELSE [raised |-> TRUE, api_key |-> "", timeout |-> None]

\* An LLM call through the client get_llm builds has no time limit.
Unbounded(cfg) == ~get_llm(cfg).raised /\ get_llm(cfg).timeout = None

\* The LLM can reply: a client was built and it holds a credential.
Answers(cfg) == ~get_llm(cfg).raised /\ get_llm(cfg).api_key # ""

\* ask(): if not settings.anthropic_api_key and
\*            settings.fedquery_llm_provider == "anthropic"
MissingKey(cfg) ==
    cfg.anthropic_api_key = "" /\ cfg.fedquery_llm_provider = "anthropic"

\* ------------------------------------------------------------------ search client

\* MCPSearchClient.  _loop, _thread, _session, _exit_stack: the attribute is
\* set (TRUE) or None (FALSE).  running: the background thread is alive.
\* stopping: loop.stop is scheduled on a loop that has not yet run it.
\* subprocess: the search-service subprocess is up.
\* call: the call another thread has on the client:
\*   "none", "checked" (it passed the session test), "pending" (it waits in
\*   future.result(timeout=30)), "returned", "failed", "not_connected".
\* op: the method of that call.
NewClient ==
    [_loop |-> FALSE, _thread |-> FALSE, _session |-> FALSE,
     _exit_stack |-> FALSE, running |-> FALSE, stopping |-> FALSE,
     subprocess |-> FALSE, call |-> "none", op |-> "search"]

\* How connect() can end:
\*   "connected"          session.initialize() returned
\*   "spawn_failed"       stdio_client raised: no subprocess
\*   "initialize_failed"  the session could not be set up, or
\*                        future.result(timeout=30) raised
ConnectOutcomes == {"connected", "spawn_failed", "initialize_failed"}

\* connect(): only "connected" returns, the other outcomes raise.
connect(c, outcome) ==
    [c EXCEPT !._loop = TRUE, !._thread = TRUE, !.running = TRUE,
              !.stopping = FALSE, !._exit_stack = TRUE,
              !._session = (outcome = "connected"),
              !.subprocess = (outcome # "spawn_failed")]

\* How close() can go.  cleanup: _exit_stack.aclose() on the loop, bounded by
\* future.result(timeout=10): "ok", "raised", "timeout", or "skipped" when there
\* is no loop or no exit stack.  joined: the thread ended within
\* join(timeout=5); a loop that did not get to run the cleanup may not get to
\* run loop.stop either.
CloseOutcomes(c) ==
    IF c._loop /\ c._exit_stack
    THEN {[cleanup |-> "ok", joined |-> TRUE],
          [cleanup |-> "raised", joined |-> TRUE],
          [cleanup |-> "timeout", joined |-> TRUE],
          [cleanup |-> "timeout", joined |-> FALSE]}
    ELSE {[cleanup |-> "skipped", joined |-> TRUE]}

\* close(): every exception of the cleanup is swallowed, the result of join is
\* not looked at, the four attributes are set to None.
close(c, o) ==
    LET running == c.running /\ ~(c._loop /\ c._thread /\ o.joined)
    IN  [c EXCEPT !._loop = FALSE, !._thread = FALSE, !._session = FALSE,
                  !._exit_stack = FALSE,
                  !.subprocess = c.subprocess /\ o.cleanup # "ok",
                  !.running = running,
                  !.stopping = running /\ (c.stopping \/ c._loop)]

\* ------------------------------------------------------------------ graph

\* The keys of AgentState: the channels of StateGraph(AgentState).
AgentState ==
    {"query", "retrieved_chunks", "confidence", "reformulation_attempts",
     "reformulated_query", "answer", "citations", "needs_retrieval"}

\* The graph stores the keys of a node's return value that are channels of the
\* state schema, and no others.
Update(st, ret) ==
    [k \in DOMAIN st \cup (DOMAIN ret \cap AgentState) |->
        IF k \in DOMAIN ret /\ k \in AgentState THEN ret[k] ELSE st[k]]

\* A direct call of a node keeps every key it returns.
Merge(st, ret) ==
    [k \in DOMAIN st \cup DOMAIN ret |-> IF k \in DOMAIN ret THEN ret[k] ELSE st[k]]

Questions == {"q1", "q2"}

\* initial_state of ask()
initial_state(question) ==
    [query                  |-> question,
     retrieved_chunks       |-> <<>>,
     confidence             |-> "insufficient",
     reformulation_attempts |-> 0,
     reformulated_query     |-> None,
     answer                 |-> None,
     citations              |-> <<>>,
     needs_retrieval        |-> TRUE,
     metadata_hints         |-> None]

\* Variant: triage always leads to the search.
_route_after_assess_always_search(st) == "search_corpus"

\* Variant: the two routes swapped.
_route_after_assess_inverted(st) ==
    IF Get(st, "needs_retrieval", FALSE) THEN "respond" ELSE "search_corpus"

_route_after_assess(st) ==
    IF Get(st, "needs_retrieval", FALSE) THEN "search_corpus" ELSE "respond"

\* Variant: retries while attempts <= 2.
_route_after_confidence_off_by_one(st) ==
    LET confidence == Get(st, "confidence", "insufficient")
        attempts   == Get(st, "reformulation_attempts", 0)
    IN  IF confidence \in {"high", "medium"} THEN "synthesize_answer"
        ELSE IF confidence = "low" /\ attempts <= 2 THEN "reformulate_query"
        ELSE "respond"

\* Variant: retries on insufficient confidence too.
_route_after_confidence_retry_insufficient(st) ==
    LET confidence == Get(st, "confidence", "insufficient")
        attempts   == Get(st, "reformulation_attempts", 0)
    IN  IF confidence \in {"high", "medium"} THEN "synthesize_answer"
        ELSE IF confidence \in {"low", "insufficient"} /\ attempts < 2
             THEN "reformulate_query"
        ELSE "respond"

\* Variant: low confidence with the retries used up is answered too.
_route_after_confidence_synthesize_low(st) ==
    LET confidence == Get(st, "confidence", "insufficient")
        attempts   == Get(st, "reformulation_attempts", 0)
    IN  IF confidence \in {"high", "medium"} THEN "synthesize_answer"
        ELSE IF confidence = "low" /\ attempts < 2 THEN "reformulate_query"
        ELSE IF confidence = "low" THEN "synthesize_answer"
        ELSE "respond"

_route_after_confidence(st) ==
    LET confidence == Get(st, "confidence", "insufficient")
        attempts   == Get(st, "reformulation_attempts", 0)
    IN  IF confidence \in {"high", "medium"} THEN "synthesize_answer"
        ELSE IF confidence = "low" /\ attempts < 2 THEN "reformulate_query"
        ELSE "respond"

\* Variant: synthesize_answer wired straight to respond.
add_edge_skip_validate(node) ==
    CASE node = "search_corpus"      -> "evaluate_confidence"
      [] node = "reformulate_query"  -> "search_corpus"
      [] node = "synthesize_answer"  -> "respond"
      [] node = "validate_citations" -> "respond"
      [] node = "respond"            -> "END"

\* graph.add_edge(node, target)
add_edge(node) ==
    CASE node = "search_corpus"      -> "evaluate_confidence"
      [] node = "reformulate_query"  -> "search_corpus"
      [] node = "synthesize_answer"  -> "validate_citations"
      [] node = "validate_citations" -> "respond"
      [] node = "respond"            -> "END"

Init ==
    /\ pc = "assess_query"
    /\ \E question \in Questions : state = Update(<<>>, initial_state(question))
    /\ calls = <<>>
    /\ triage = None
    /\ trace = <<>>
    /\ service = <<>>
    /\ input = None
    /\ llm = None
    /\ settings = ValidSettings
    /\ client = connect(NewClient, "connected")
    /\ prompt = None


\* ------------------------------------------------------------------ nodes

\* Confidence thresholds, in units of 1/10000.
CONFIDENCE_THRESHOLDS == [high |-> 5500, medium |-> 4000, low |-> 2500]

\* Variant: a mean equal to a threshold falls in the level below it.
evaluate_confidence_level_strict(sum, n) ==
    IF sum > CONFIDENCE_THRESHOLDS.high * n THEN "high"
    ELSE IF sum > CONFIDENCE_THRESHOLDS.medium * n THEN "medium"
    ELSE IF sum > CONFIDENCE_THRESHOLDS.low * n THEN "low"
    ELSE "insufficient"

\* evaluate_confidence_level over the mean sum/n, kept as an exact fraction.
evaluate_confidence_level(sum, n) ==
    IF sum >= CONFIDENCE_THRESHOLDS.high * n THEN "high"
    ELSE IF sum >= CONFIDENCE_THRESHOLDS.medium * n THEN "medium"
    ELSE IF sum >= CONFIDENCE_THRESHOLDS.low * n THEN "low"
    ELSE "insufficient"

\* Replies of the triage LLM call (response.content), stripped of outer blanks:
\*   open   what the reply starts with: nothing (""), three backquotes
\*          ("fence"), three backquotes and json ("fence_json"), or three
\*          backquotes and another info string ("fence_text")
\*   close  the reply ends with three backquotes
\*   body   what lies between: a JSON "object" with the members below, another
\*          JSON "value" (a list, a number, a string, true, null), or "text"
\*          that is not JSON
\*   yes    the lower-cased raw reply contains "yes" or "true"
Fences == {"", "fence", "fence_json", "fence_text"}

AssessReplies ==
    {r \in [open            : Fences,
            close           : BOOLEAN,
            body            : {"object"},
            needs_retrieval : {None, Some(TRUE), Some(FALSE)},
            date_start      : {None, Some(""), Some("2024-12-01")},
            date_end        : {None, Some(""), Some("2024-12-31")},
            top_k_hint      : {None, Some(0), Some(1), Some(15), Some(50), Some(51)},
            yes             : BOOLEAN] :
        r.needs_retrieval = Some(TRUE) => r.yes}
    \cup
    [open            : Fences,
     close           : BOOLEAN,
     body            : {"value", "text"},
     needs_retrieval : {None},
     date_start      : {None},
     date_end        : {None},
     top_k_hint      : {None},
     yes             : BOOLEAN]

\* Variant: fences are left in place.
StripFence_keep(r) == r

\* if text.startswith(fence): the leading fence with an optional json and the
\* trailing fence are removed.  Of another info string only the backquotes
\* go: open = "text" is what stays in front.
StripFence(r) ==
    IF r.open = "" THEN r
    ELSE [r EXCEPT !.open  = IF r.open \in {"fence", "fence_json"} THEN "" ELSE "text",
                   !.close = FALSE]

\* json.loads(text): the kind of value parsed; "text" when it raises
\* JSONDecodeError (anything before or after the JSON value makes it raise).
json_loads(r) == IF r.open = "" /\ ~r.close THEN r.body ELSE "text"

\* Variant: one date bound is enough for a hint.
MetadataHints_either(date_start, date_end) ==
    IF TruthyStr(date_start) \/ TruthyStr(date_end)
    THEN Some([date_start |-> date_start, date_end |-> date_end])
    ELSE None

\* if date_start and date_end: metadata_hints = {...}
MetadataHints(date_start, date_end) ==
    IF TruthyStr(date_start) /\ TruthyStr(date_end)
    THEN Some([date_start |-> date_start, date_end |-> date_end])
    ELSE None

\* if isinstance(raw_hint, int) and 1 <= raw_hint <= 50: top_k_hint = raw_hint
TopKHint(raw_hint) ==
    IF raw_hint # None /\ 1 <= raw_hint[1] /\ raw_hint[1] <= 50
    THEN raw_hint
    ELSE None

assess_query(reply) ==
    IF json_loads(StripFence(reply)) = "object"
    THEN [needs_retrieval |-> reply.needs_retrieval = Some(TRUE),
          metadata_hints  |-> MetadataHints(reply.date_start, reply.date_end),
          top_k_hint      |-> TopKHint(reply.top_k_hint)]
    ELSE [needs_retrieval |-> reply.yes,
          metadata_hints  |-> None,
          top_k_hint      |-> None]

\* query = state.get("reformulated_query") or state["query"]
\* Variant: the search always uses the original query.
EffectiveQuery_original(st) == st["query"]

EffectiveQuery(st) ==
    IF TruthyStr(Get(st, "reformulated_query", None))
    THEN st["reformulated_query"][1]
    ELSE st["query"]

\* top_k = state.get("top_k_hint") or 10
DefaultTopK == 10
TopK(st) ==
    IF TruthyInt(Get(st, "top_k_hint", None)) THEN st["top_k_hint"][1] ELSE DefaultTopK

\* if hints and hints.get("date_start")
TwoPass(st) ==
    LET hints == Get(st, "metadata_hints", None)
    IN  /\ hints # None
        /\ DOMAIN hints[1] # {}
        /\ TruthyStr(Get(hints[1], "date_start", None))

\* Variant: appends every unfiltered result, seen or not.
MergeFrom_no_dedup(unfiltered, i, seen, merged) ==
    merged \o SubSeq(unfiltered, i, Len(unfiltered))

\* The merge loop of search_corpus over unfiltered[i..].
RECURSIVE MergeFrom(_, _, _, _)
MergeFrom(unfiltered, i, seen, merged) ==
    IF i > Len(unfiltered) THEN merged
    ELSE IF unfiltered[i].chunk_id \notin seen
         THEN MergeFrom(unfiltered, i + 1, seen \cup {unfiltered[i].chunk_id},
                        Append(merged, unfiltered[i]))
         ELSE MergeFrom(unfiltered, i + 1, seen, merged)

\* Variant: the unfiltered pass takes priority.
MergeResults_unfiltered_first(filtered, unfiltered, top_k) ==
    Take(MergeFrom(filtered, 1, {unfiltered[i].chunk_id : i \in 1..Len(unfiltered)},
                   unfiltered),
         top_k)

\* Variant: the merged list is returned whole.
MergeResults_no_truncate(filtered, unfiltered, top_k) ==
    MergeFrom(unfiltered, 1, {filtered[i].chunk_id : i \in 1..Len(filtered)}, filtered)

MergeResults(filtered, unfiltered, top_k) ==
    Take(MergeFrom(unfiltered, 1, {filtered[i].chunk_id : i \in 1..Len(filtered)},
                   filtered),
         top_k)

Call(query, top_k, where, result) ==
    [query |-> query, top_k |-> top_k, where |-> where, result |-> result]

\* search_corpus(state, search_fn), given what the calls of search_fn do: they
\* return filtered and unfiltered, and call number fail (if any) raises.
\* raised: an exception leaves the node; ret: the dict it returns otherwise.
search_corpus(st, filtered, unfiltered, fail) ==
    LET query == EffectiveQuery(st)
        top_k == TopK(st)
    IN  IF TwoPass(st)
        THEN LET hints == st["metadata_hints"][1]
             IN  IF "date_end" \notin DOMAIN hints
                 THEN [raised |-> TRUE, calls |-> <<>>, ret |-> <<>>]
                 ELSE LET where == Some([gte |-> hints["date_start"],
                                         lte |-> hints["date_end"]])
                          c1 == Call(query, top_k, where,
                                     IF fail = 1 THEN <<>> ELSE filtered)
                          c2 == Call(query, top_k, None,
                                     IF fail = 2 THEN <<>> ELSE unfiltered)
                      IN  IF fail = 1
                          THEN [raised |-> TRUE, calls |-> <<c1>>, ret |-> <<>>]
                          ELSE IF fail = 2
                          THEN [raised |-> TRUE, calls |-> <<c1, c2>>, ret |-> <<>>]
                          ELSE [raised |-> FALSE, calls |-> <<c1, c2>>,
                                ret |-> [retrieved_chunks |->
                                           MergeResults(filtered, unfiltered, top_k)]]
        ELSE LET c == Call(query, top_k, None, IF fail = 1 THEN <<>> ELSE unfiltered)
             IN  IF fail = 1
                 THEN [raised |-> TRUE, calls |-> <<c>>, ret |-> <<>>]
                 ELSE [raised |-> FALSE, calls |-> <<c>>,
                       ret |-> [retrieved_chunks |-> unfiltered]]

RECURSIVE SumScores(_)
SumScores(chunks) ==
    IF chunks = <<>> THEN 0
    ELSE Head(chunks).relevance_score + SumScores(Tail(chunks))

evaluate_confidence(st) ==
    LET chunks == Get(st, "retrieved_chunks", <<>>)
    IN  IF chunks = <<>> THEN [confidence |-> "insufficient"]
        ELSE [confidence |-> evaluate_confidence_level(SumScores(chunks), Len(chunks))]

\* Replies of the reformulation LLM call, stripped.
ReformulateReplies == {"r1", "r2", ""}

\* Variant: the attempt is not counted.
reformulate_query_no_increment(st, reply) ==
    [reformulated_query     |-> Some(reply),
     reformulation_attempts |-> Get(st, "reformulation_attempts", 0)]

\* Variant: the reformulation replaces the query itself.
reformulate_query_overwrite(st, reply) ==
    [query                  |-> reply,
     reformulated_query     |-> Some(reply),
     reformulation_attempts |-> Get(st, "reformulation_attempts", 0) + 1]

reformulate_query(st, reply) ==
    [reformulated_query     |-> Some(reply),
     reformulation_attempts |-> Get(st, "reformulation_attempts", 0) + 1]

\* ------------------------------------------------------------------ text

\* A text is a sequence of tokens:
\*   [t |-> "text"]                      characters outside any bracketed span
\*   [t |-> "src", nums |-> <<6, 10>>]   a span matching \[Sources?\s+[^\]]+\],
\*                                       nums the integers re.findall finds in it
\*   [t |-> "ref", nums |-> <<1, 2>>]    a rewritten span "[1, 2]"
\*   [t |-> "sources", entries |-> ..]   the "Sources:" footer
\*   [t |-> "uncertain", ..]             the uncertainty template
Txt == [t |-> "text"]
Src(nums) == [t |-> "src", nums |-> nums]
Ref(nums) == [t |-> "ref", nums |-> nums]

\* Replies of the synthesis LLM call (response.content).
SynthReplies ==
    { <<>>,
      <<Txt>>,
      <<Txt, Src(<<1>>), Txt>>,
      <<Src(<<2, 1>>), Txt, Src(<<1>>), Src(<<7>>)>> }

\* Variant: a repeated integer is cited again.
CiteNums_no_dedup(nums, cited) == cited \o nums

\* The inner loop of the citation parser: the integers of one span.
RECURSIVE CiteNums(_, _)
CiteNums(nums, cited) ==
    IF nums = <<>> THEN cited
    ELSE CiteNums(Tail(nums),
                  IF Head(nums) \in Range(cited) THEN cited
                  ELSE Append(cited, Head(nums)))

\* The outer loop: every span of the text, in order.
RECURSIVE CitedIndices(_, _)
CitedIndices(content, cited) ==
    IF content = <<>> THEN cited
    ELSE CitedIndices(Tail(content),
                      IF Head(content).t = "src"
                      THEN CiteNums(Head(content).nums, cited)
                      ELSE cited)

Citation(chunk, idx) ==
    [document_name   |-> chunk.document_name,
     document_date   |-> chunk.document_date,
     section_header  |-> chunk.section_header,
     chunk_id        |-> chunk.chunk_id,
     relevance_score |-> chunk.relevance_score,
     quoted_excerpt  |-> Take(chunk.chunk_text, ExcerptLen),
     source_index    |-> idx]

RECURSIVE BuildCitations(_, _)
BuildCitations(cited_indices, chunks) ==
    IF cited_indices = <<>> THEN <<>>
    ELSE LET idx == Head(cited_indices)
             rest == BuildCitations(Tail(cited_indices), chunks)
         IN  IF 0 <= idx - 1 /\ idx - 1 < Len(chunks)
             THEN <<Citation(chunks[idx], idx)>> \o rest
             ELSE rest

synthesize_answer(st, content) ==
    LET chunks == Get(st, "retrieved_chunks", <<>>)
    IN  [answer    |-> Some(content),
         citations |-> BuildCitations(CitedIndices(content, <<>>), chunks)]

\* chunk_lookup.get(chunk_id): a dict comprehension keeps the last chunk of an id.
ChunkLookup(chunks, id) ==
    IF \E i \in 1..Len(chunks) : chunks[i].chunk_id = id
    THEN LET last == CHOOSE i \in 1..Len(chunks) :
                        /\ chunks[i].chunk_id = id
                        /\ \A j \in 1..Len(chunks) : chunks[j].chunk_id = id => j <= i
         IN  Some(chunks[last].chunk_text)
    ELSE None

\* Variant: no citation is dropped.
Validated_keep_all(citations, chunks) ==
    [i \in 1..Len(citations) |->
        LET chunk_text == ChunkLookup(chunks, citations[i].chunk_id)
        IN  IF chunk_text = None THEN citations[i]
            ELSE [citations[i] EXCEPT !.quoted_excerpt = Take(chunk_text[1], ExcerptLen)]]

\* Variant: a surviving citation keeps the excerpt it came with.
Validated_stale_excerpt(citations, chunks) ==
    SelectSeq(citations, LAMBDA c : ChunkLookup(chunks, c.chunk_id) # None)

RECURSIVE Validated(_, _)
Validated(citations, chunks) ==
    IF citations = <<>> THEN <<>>
    ELSE LET citation   == Head(citations)
             chunk_text == ChunkLookup(chunks, citation.chunk_id)
             rest       == Validated(Tail(citations), chunks)
         IN  IF chunk_text = None THEN rest
             ELSE <<[citation EXCEPT !.quoted_excerpt =
                                        Take(chunk_text[1], ExcerptLen)]>> \o rest

validate_citations(st) ==
    [citations |-> Validated(Get(st, "citations", <<>>),
                             Get(st, "retrieved_chunks", <<>>))]

\* Variant: a source keeps the number the model gave it.
SourceMap_identity(citations) ==
    [orig \in {citations[i].source_index : i \in 1..Len(citations)} |-> orig]

\* source_map: later citations overwrite earlier ones of the same source_index.
SourceMap(citations) ==
    [orig \in {citations[i].source_index : i \in 1..Len(citations)} |->
        CHOOSE new_idx \in 1..Len(citations) :
            /\ citations[new_idx].source_index = orig
            /\ \A j \in 1..Len(citations) :
                   citations[j].source_index = orig => j <= new_idx]

RECURSIVE Remapped(_, _)
Remapped(nums, source_map) ==
    IF nums = <<>> THEN <<>>
    ELSE (IF Head(nums) \in DOMAIN source_map
          THEN <<source_map[Head(nums)]>> ELSE <<>>)
         \o Remapped(Tail(nums), source_map)

\* Variant: a span is rewritten only when every index in it is cited.
_remap_source_block_all_cited(block, source_map) ==
    LET remapped == Remapped(block.nums, source_map)
    IN  IF remapped # <<>> /\ Len(remapped) = Len(block.nums)
        THEN Ref(remapped) ELSE block

_remap_source_block(block, source_map) ==
    LET remapped == Remapped(block.nums, source_map)
    IN  IF remapped # <<>> THEN Ref(remapped) ELSE block

\* chunk_id[:8]; the chunk ids of the model are shorter than 8 characters
ChunkIdPrefix(id) == id

\* How many best matches the uncertainty template lists.
BestMatches == 3

\* f"{score:.2f}": the score in hundredths, to the nearest.
Fmt2(score) == (score + 50) \div 100

\* Variant: only a missing answer gives the uncertainty response.
Uncertain_no_answer_only(st) ==
    Get(st, "answer", None) = None \/ Get(st, "answer", None)[1] = <<>>

\* if confidence == "insufficient" or not answer
Uncertain(st) ==
    \/ Get(st, "confidence", "insufficient") = "insufficient"
    \/ Get(st, "answer", None) = None
    \/ Get(st, "answer", None)[1] = <<>>

respond(st) ==
    LET answer     == Get(st, "answer", None)
        citations  == Get(st, "citations", <<>>)
    IN  IF Uncertain(st)
        THEN LET chunks == Take(Get(st, "retrieved_chunks", <<>>), BestMatches)
             IN  [answer |-> Some(<<
                     [t        |-> "uncertain",
                      searched |-> <<st["query"]>> \o
                                   (IF TruthyStr(Get(st, "reformulated_query", None))
                                    THEN <<st["reformulated_query"][1]>> ELSE <<>>),
                      matches  |-> [i \in 1..Len(chunks) |->
                                       [n               |-> i,
                                        document_name   |-> chunks[i].document_name,
                                        score           |-> Fmt2(chunks[i].relevance_score)]]]
                     >>),
                  citations |-> <<>>]
        ELSE LET source_map == SourceMap(citations)
                 body == [i \in 1..Len(answer[1]) |->
                             IF answer[1][i].t = "src"
                             THEN _remap_source_block(answer[1][i], source_map)
                             ELSE answer[1][i]]
                 sources == [i \in 1..Len(citations) |->
                                [n              |-> i,
                                 document_name  |-> citations[i].document_name,
                                 document_date  |-> citations[i].document_date,
                                 section_header |-> citations[i].section_header,
                                 chunk          |-> ChunkIdPrefix(citations[i].chunk_id)]]
             IN  [answer |-> Some(IF sources # <<>>
                                  THEN Append(body, [t |-> "sources", entries |-> sources])
                                  ELSE body)]

\* ------------------------------------------------------------------ search backend

\* _handle_search_fomc: top_k = min(arguments.get("top_k", 5), 20)
MaxTopK == 20

\* What a search_fomc request can end in:
\*   "results"    the service replies with a JSON list of ranked chunks
\*   "error"      the service replies {"error": "invalid_query"} or
\*                {"error": "empty_corpus"}
\*   "timeout"    future.result(timeout=30) raises
\*   "transport"  call_tool raises, or the reply is not JSON
ServiceReplies(top_k) ==
    {[kind |-> "results", results |-> r] : r \in UnfilteredResults(Min(top_k, MaxTopK))}
    \cup {[kind |-> k, results |-> <<>>] : k \in {"error", "timeout", "transport"}}

\* MCPSearchClient.search(query, top_k), given the outcome of its request.
MCPSearchClient_search(rep) ==
    IF rep.kind \in {"timeout", "transport"}
    THEN [raised |-> TRUE, ret |-> <<>>]
    ELSE IF rep.kind = "error"
    THEN [raised |-> FALSE, ret |-> <<>>]
    ELSE [raised |-> FALSE, ret |-> rep.results]

\* search_fn(query, top_k=top_k, where=where) of create_mcp_search_fn and of
\* create_direct_search_fn: def search_fn(query, top_k=5) has no parameter
\* "where", so a call that passes the keyword raises TypeError before any
\* request is made.  requested: the search service was asked.
search_fn(where, rep) ==
    IF where # None
    THEN [raised |-> TRUE, requested |-> FALSE, ret |-> <<>>]
    ELSE LET r == MCPSearchClient_search(rep)
         IN  [raised |-> r.raised, requested |-> TRUE, ret |-> r.ret]

\* search_corpus(state, search_fn) with the search function ask() builds.
\* service: the kinds of the replies the search service gave.
Backend(st, rep) ==
    IF TwoPass(st) /\ "date_end" \in DOMAIN st["metadata_hints"][1]
    THEN LET hints == st["metadata_hints"][1]
             where == Some([gte |-> hints["date_start"], lte |-> hints["date_end"]])
             first == search_fn(where, rep)
             r     == search_corpus(st, first.ret, <<>>, IF first.raised THEN 1 ELSE 0)
         IN  [raised |-> r.raised, calls |-> r.calls, ret |-> r.ret,
              service |-> IF first.requested THEN <<rep.kind>> ELSE <<>>]
    ELSE LET only == search_fn(None, rep)
             r    == search_corpus(st, <<>>, only.ret, IF only.raised THEN 1 ELSE 0)
         IN  [raised |-> r.raised, calls |-> r.calls, ret |-> r.ret,
              service |-> IF r.calls = <<>> THEN <<>> ELSE <<rep.kind>>]

\* ------------------------------------------------------------------ actions

\* A node starts executing.
Enter(node) ==
    /\ pc = node
    /\ Len(trace) < MaxSteps
    /\ trace' = Append(trace, node)
    /\ UNCHANGED <<input, llm, settings, client>>

\* An exception leaves the node, graph.invoke and ask().
Raise == pc' = "raised" /\ state' = state

\* llm.invoke(messages) does not return: the LLM never answers, and neither
\* get_llm nor the node bounds the call by a timeout.
Block == pc' = "blocked" /\ state' = state

\* The messages of a node's LLM call: the query they quote and the retrieved
\* chunks they show.
Messages(node, st, passages) ==
    [node |-> node, query |-> st["query"],
     passages |-> [i \in 1..Len(passages) |-> passages[i].chunk_id]]

\* llm = get_llm(); llm.invoke(messages): the messages are sent unless
\* get_llm raised.
Invoke(messages) ==
    prompt' = IF get_llm(settings).raised THEN prompt ELSE Some(messages)

\* The replies of the backend ask() built: the in-process search function has
\* no error reply and no timeout, it returns or raises.
BackendReplies(top_k) ==
    {rep \in ServiceReplies(top_k) :
        settings.fedquery_use_mcp \/ rep.kind \in {"results", "transport"}}

AssessQuery ==
    /\ Enter("assess_query")
    /\ UNCHANGED <<calls, service>>
    /\ Invoke(Messages("assess_query", state, <<>>))
    /\ \/ /\ Answers(settings)
          /\ \E reply \in AssessReplies :
                LET ret == assess_query(reply)
                IN  /\ triage' = Some(ret)
                    /\ state' = Update(state, ret)
                    /\ pc' = _route_after_assess(state')
       \/ Raise /\ triage' = triage
       \/ Unbounded(settings) /\ Block /\ triage' = triage

SearchCorpus ==
    /\ Enter("search_corpus")
    /\ UNCHANGED <<triage, prompt>>
    /\ \E rep \in BackendReplies(TopK(state)) :
            LET r == Backend(state, rep)
            IN  /\ calls' = r.calls
                /\ service' = r.service
                /\ IF r.raised
                   THEN Raise
                   ELSE /\ state' = Update(state, r.ret)
                        /\ pc' = add_edge("search_corpus")

EvaluateConfidence ==
    /\ Enter("evaluate_confidence")
    /\ UNCHANGED <<calls, triage, service, prompt>>
    /\ state' = Update(state, evaluate_confidence(state))
    /\ pc' = _route_after_confidence(state')

ReformulateQuery ==
    /\ Enter("reformulate_query")
    /\ UNCHANGED <<calls, triage, service>>
    /\ Invoke(Messages("reformulate_query", state,
                       Take(Get(state, "retrieved_chunks", <<>>), 3)))
    /\ \/ /\ Answers(settings)
          /\ \E reply \in ReformulateReplies :
                /\ state' = Update(state, reformulate_query(state, reply))
                /\ pc' = add_edge("reformulate_query")
       \/ Raise
       \/ Unbounded(settings) /\ Block

SynthesizeAnswer ==
    /\ Enter("synthesize_answer")
    /\ UNCHANGED <<calls, triage, service>>
    /\ Invoke(Messages("synthesize_answer", state,
                       Get(state, "retrieved_chunks", <<>>)))
    /\ \/ /\ Answers(settings)
          /\ \E content \in SynthReplies :
                /\ state' = Update(state, synthesize_answer(state, content))
                /\ pc' = add_edge("synthesize_answer")
       \/ Raise
       \/ Unbounded(settings) /\ Block

ValidateCitations ==
    /\ Enter("validate_citations")
    /\ UNCHANGED <<calls, triage, service, prompt>>
    /\ state' = Update(state, validate_citations(state))
    /\ pc' = add_edge("validate_citations")

Respond ==
    /\ Enter("respond")
    /\ UNCHANGED <<calls, triage, service, prompt>>
    /\ state' = Update(state, respond(state))
    /\ pc' = add_edge("respond")

Next ==
    \/ AssessQuery
    \/ SearchCorpus
    \/ EvaluateConfidence
    \/ ReformulateQuery
    \/ SynthesizeAnswer
    \/ ValidateCitations
    \/ Respond

Spec == Init /\ [][Next]_vars

\* The graph executor always runs the next node.
FairSpec == Spec /\ WF_vars(Next)

\* ------------------------------------------------------------------ ask command

\* The ask command from its first line: the settings are whatever the
\* environment holds, no client exists yet.
InitAsk ==
    /\ pc = "ask"
    /\ \E question \in Questions : state = Update(<<>>, initial_state(question))
    /\ calls = <<>>
    /\ triage = None
    /\ trace = <<>>
    /\ service = <<>>
    /\ input = None
    /\ llm = None
    /\ settings \in SettingsValues
    /\ client = NewClient
    /\ prompt = None

\* ask() up to the try block: the credential check, then the search backend.
\* _build_mcp_search connects the client (an exception of connect leaves ask);
\* _build_direct_search exits when the vector store is empty.
Startup ==
    /\ pc = "ask"
    /\ UNCHANGED <<state, calls, triage, trace, service, input, llm, settings, prompt>>
    /\ IF MissingKey(settings)
       THEN pc' = "exit" /\ client' = client
       ELSE IF settings.fedquery_use_mcp
       THEN \E outcome \in ConnectOutcomes :
                /\ client' = connect(client, outcome)
                /\ pc' = IF outcome = "connected" THEN "assess_query" ELSE "failed"
       ELSE /\ client' = client
            /\ pc' \in {"assess_query", "exit"}

\* finally: if cleanup: cleanup(), once graph.invoke returned or raised.
Cleanup ==
    /\ pc \in {"END", "raised"}
    /\ pc' = IF pc = "END" THEN "done" ELSE "failed"
    /\ UNCHANGED <<state, calls, triage, trace, service, input, llm, settings, prompt>>
    /\ IF settings.fedquery_use_mcp
       THEN \E o \in CloseOutcomes(client) : client' = close(client, o)
       ELSE client' = client

NextAsk ==
    \/ Startup
    \/ AssessQuery
    \/ SearchCorpus
    \/ EvaluateConfidence
    \/ ReformulateQuery
    \/ SynthesizeAnswer
    \/ ValidateCitations
    \/ Respond
    \/ Cleanup

SpecAsk == InitAsk /\ [][NextAsk]_vars

\* ------------------------------------------------------------------ client threads

\* An MCPSearchClient used by two threads: one connects and closes it, the
\* other calls search and get_document.
InitClient ==
    /\ pc = "client"
    /\ state = <<>>
    /\ calls = <<>>
    /\ triage = None
    /\ trace = <<>>
    /\ service = <<>>
    /\ input = None
    /\ llm = None
    /\ settings = ValidSettings
    /\ client = NewClient
    /\ prompt = None

ClientFrame ==
    UNCHANGED <<state, calls, triage, service, input, llm, settings, prompt>>

\* connect() on a client that has no loop.
ClientConnect ==
    /\ ~client._loop
    /\ Len(trace) < MaxOps
    /\ trace' = Append(trace, "connect")
    /\ ClientFrame
    /\ \E outcome \in ConnectOutcomes :
            /\ client' = connect(client, outcome)
            /\ pc' = IF outcome = "connected" THEN "connect_returned"
                                              ELSE "connect_raised"

\* close(), from any state of the client.
ClientClose ==
    /\ Len(trace) < MaxOps
    /\ trace' = Append(trace, "close")
    /\ ClientFrame
    /\ \E o \in CloseOutcomes(client) : client' = close(client, o)
    /\ pc' = "close_returned"

\* search() or get_document() starts: if not self._session: raise RuntimeError.
ClientCall ==
    /\ client.call = "none"
    /\ UNCHANGED <<pc, trace>>
    /\ ClientFrame
    /\ \E op \in {"search", "get_document"} :
            client' = [client EXCEPT
                          !.op = op,
                          !.call = IF client._session THEN "checked"
                                                      ELSE "not_connected"]

\* asyncio.run_coroutine_threadsafe(coroutine, self._loop): raises when
\* self._loop is None by now.
ClientSubmit ==
    /\ client.call = "checked"
    /\ UNCHANGED <<pc, trace>>
    /\ ClientFrame
    /\ client' = [client EXCEPT
                      !.call = IF client._loop THEN "pending" ELSE "failed"]

\* future.result(timeout=30): the reply of the service when the loop runs the
\* coroutine on an open session; TimeoutError or the exception of the
\* coroutine otherwise, and at any time.
ClientResult ==
    /\ client.call = "pending"
    /\ UNCHANGED <<pc, trace>>
    /\ ClientFrame
    /\ \/ /\ client._session /\ client.running /\ ~client.stopping
          /\ client.subprocess
          /\ client' = [client EXCEPT !.call = "returned"]
       \/ client' = [client EXCEPT !.call = "failed"]

\* The calling thread is free for its next call.
ClientNext ==
    /\ client.call \in {"returned", "failed", "not_connected"}
    /\ UNCHANGED <<pc, trace>>
    /\ ClientFrame
    /\ client' = [client EXCEPT !.call = "none"]

\* The loop gets to run the scheduled loop.stop: run_forever returns and the
\* background thread ends.
ThreadEnds ==
    /\ client.running /\ client.stopping
    /\ UNCHANGED <<pc, trace>>
    /\ ClientFrame
    /\ client' = [client EXCEPT !.running = FALSE, !.stopping = FALSE]

NextClient ==
    \/ ClientConnect
    \/ ClientClose
    \/ ClientCall
    \/ ClientSubmit
    \/ ClientResult
    \/ ClientNext
    \/ ThreadEnds

SpecClient == InitClient /\ [][NextClient]_vars

\* ------------------------------------------------------------------ direct calls

\* search_corpus called directly on a state dict, as the unit tests call it.
HintDates == {None, Some("2024-12-01")}

HintDicts ==
    UNION {[keys -> HintDates] : keys \in SUBSET {"date_start", "date_end"}}

Entries(key, values) == {<<>>} \cup {key :> v : v \in values}

SearchStates ==
    {Merge(Merge(Merge([query |-> question], hints), top_k), reformulated) :
        question     \in Questions,
        hints        \in Entries("metadata_hints",
                                 {None} \cup {Some(d) : d \in HintDicts}),
        top_k        \in Entries("top_k_hint", {None, Some(1), Some(2)}),
        reformulated \in Entries("reformulated_query", {Some(""), Some("r1")})}

InitSearch ==
    /\ pc = "call_search_corpus"
    /\ state \in SearchStates
    /\ calls = <<>>
    /\ triage = None
    /\ trace = <<>>
    /\ service = <<>>
    /\ input = None
    /\ llm = None
    /\ settings = ValidSettings
    /\ client = NewClient
    /\ prompt = None

CallSearchCorpus ==
    /\ pc = "call_search_corpus"
    /\ UNCHANGED <<settings, client, prompt>>
    /\ trace' = Append(trace, "search_corpus")
    /\ input' = Some(state)
    /\ UNCHANGED <<triage, service, llm>>
    /\ \E filtered \in FilteredResults(TopK(state)),
          unfiltered \in UnfilteredResults(TopK(state)),
          fail \in 0..2 :
            LET r == search_corpus(state, filtered, unfiltered, fail)
            IN  /\ calls' = r.calls
                /\ IF r.raised
                   THEN Raise
                   ELSE /\ state' = Merge(state, r.ret)
                        /\ pc' = "returned"

NextSearch == CallSearchCorpus

SpecSearch == InitSearch /\ [][NextSearch]_vars

\* assess_query called directly with a mocked LLM, as the unit tests call it.
InitAssess ==
    /\ pc = "call_assess_query"
    /\ \E question \in Questions : state = [query |-> question]
    /\ calls = <<>>
    /\ triage = None
    /\ trace = <<>>
    /\ service = <<>>
    /\ input = None
    /\ llm = None
    /\ settings = ValidSettings
    /\ client = NewClient
    /\ prompt = None

CallAssessQuery ==
    /\ pc = "call_assess_query"
    /\ UNCHANGED <<settings, client, prompt>>
    /\ trace' = Append(trace, "assess_query")
    /\ input' = Some(state)
    /\ UNCHANGED <<calls, service>>
    /\ \/ \E reply \in AssessReplies :
            LET ret == assess_query(reply)
            IN  /\ llm' = Some(reply)
                /\ triage' = Some(ret)
                /\ state' = Merge(state, ret)
                /\ pc' = "returned"
       \/ Raise /\ UNCHANGED <<triage, llm>>

NextAssess == CallAssessQuery

SpecAssess == InitAssess /\ [][NextAssess]_vars

\* search_corpus called directly with the search function ask() builds.
InitBackend ==
    /\ pc = "call_search_corpus_backend"
    /\ state \in SearchStates
    /\ calls = <<>>
    /\ triage = None
    /\ trace = <<>>
    /\ service = <<>>
    /\ input = None
    /\ llm = None
    /\ settings = ValidSettings
    /\ client = connect(NewClient, "connected")
    /\ prompt = None

CallSearchCorpusBackend ==
    /\ pc = "call_search_corpus_backend"
    /\ UNCHANGED <<settings, client, prompt>>
    /\ trace' = Append(trace, "search_corpus")
    /\ input' = Some(state)
    /\ UNCHANGED <<triage, llm>>
    /\ \E rep \in ServiceReplies(TopK(state)) :
            LET r == Backend(state, rep)
            IN  /\ calls' = r.calls
                /\ service' = r.service
                /\ IF r.raised
                   THEN Raise
                   ELSE /\ state' = Merge(state, r.ret)
                        /\ pc' = "returned"

NextBackend == CallSearchCorpusBackend

SpecBackend == InitBackend /\ [][NextBackend]_vars

\* validate_citations called directly, as the unit tests call it: the citations
\* may name chunks that are not among the candidates and carry any excerpt.
StaleExcerpt == <<"o", "l", "d">>

CitationInputs ==
    UNION {{Citation(ChunkResult(id), 1),
            [Citation(ChunkResult(id), 1) EXCEPT !.quoted_excerpt = StaleExcerpt]} :
           id \in DirectChunkIds}

CitationLists == UNION {[1..k -> CitationInputs] : k \in 0..MaxCitations}

ValidateStates ==
    {Merge(citations, chunks) :
        citations \in Entries("citations", CitationLists),
        chunks    \in Entries("retrieved_chunks",
                              {Results(r) : r \in DirectRankings(MaxResults)})}

InitValidate ==
    /\ pc = "call_validate_citations"
    /\ state \in ValidateStates
    /\ calls = <<>>
    /\ triage = None
    /\ trace = <<>>
    /\ service = <<>>
    /\ input = None
    /\ llm = None
    /\ settings = ValidSettings
    /\ client = NewClient
    /\ prompt = None

CallValidateCitations ==
    /\ pc = "call_validate_citations"
    /\ UNCHANGED <<settings, client, prompt>>
    /\ trace' = Append(trace, "validate_citations")
    /\ input' = Some(state)
    /\ UNCHANGED <<calls, triage, service, llm>>
    /\ state' = Merge(state, validate_citations(state))
    /\ pc' = "returned"

NextValidate == CallValidateCitations

SpecValidate == InitValidate /\ [][NextValidate]_vars

\* synthesize_answer called directly with a mocked LLM, as the unit tests call
\* it: the reply is any text of up to MaxTokens tokens whose spans hold up to
\* two integers, in range or not.
SpanNums == 0..3

Spans == {Src(nums) : nums \in UNION {[1..k -> SpanNums] : k \in 0..2}}

SynthTexts == UNION {[1..k -> {Txt} \cup Spans] : k \in 0..MaxTokens}

SynthStates ==
    {[query |-> question, retrieved_chunks |-> Results(r)] :
        question \in Questions, r \in Rankings(MaxResults)}

InitSynth ==
    /\ pc = "call_synthesize_answer"
    /\ state \in SynthStates
    /\ calls = <<>>
    /\ triage = None
    /\ trace = <<>>
    /\ service = <<>>
    /\ input = None
    /\ llm = None
    /\ settings = ValidSettings
    /\ client = NewClient
    /\ prompt = None

CallSynthesizeAnswer ==
    /\ pc = "call_synthesize_answer"
    /\ UNCHANGED <<settings, client, prompt>>
    /\ trace' = Append(trace, "synthesize_answer")
    /\ input' = Some(state)
    /\ UNCHANGED <<calls, triage, service>>
    /\ \/ \E content \in SynthTexts :
            /\ llm' = Some(content)
            /\ state' = Merge(state, synthesize_answer(state, content))
            /\ pc' = "returned"
       \/ Raise /\ llm' = llm

NextSynth == CallSynthesizeAnswer

SpecSynth == InitSynth /\ [][NextSynth]_vars

\* respond called directly, as the unit tests call it, on states that hold any
\* confidence, answer, citations, candidates and reformulated query.
RespondCitations ==
    {<<>>,
     <<Citation(ChunkResult("c1"), 1)>>,
     <<Citation(ChunkResult("c2"), 6), Citation(ChunkResult("c1"), 1)>>}

RespondStates ==
    {Merge(Merge(Merge(Merge(Merge([query |-> question],
        confidence), answer), citations), chunks), reformulated) :
        question     \in Questions,
        confidence   \in Entries("confidence", {"high", "medium", "low", "insufficient"}),
        answer       \in Entries("answer",
                                 {None, Some(<<>>), Some(<<Txt, Src(<<6>>), Src(<<1>>)>>),
                                  Some(<<Src(<<6, 1, 9>>), Txt, Src(<<9>>)>>)}),
        citations    \in Entries("citations", RespondCitations),
        chunks       \in Entries("retrieved_chunks",
                                 {Results(r) : r \in DirectRankings(MaxChunks)}),
        reformulated \in Entries("reformulated_query", {None, Some(""), Some("r1")})}

InitRespond ==
    /\ pc = "call_respond"
    /\ state \in RespondStates
    /\ calls = <<>>
    /\ triage = None
    /\ trace = <<>>
    /\ service = <<>>
    /\ input = None
    /\ llm = None
    /\ settings = ValidSettings
    /\ client = NewClient
    /\ prompt = None

CallRespond ==
    /\ pc = "call_respond"
    /\ UNCHANGED <<settings, client, prompt>>
    /\ trace' = Append(trace, "respond")
    /\ input' = Some(state)
    /\ UNCHANGED <<calls, triage, service, llm>>
    /\ state' = Merge(state, respond(state))
    /\ pc' = "returned"

NextRespond == CallRespond

SpecRespond == InitRespond /\ [][NextRespond]_vars


\* evaluate_confidence called directly on a state dict.  The scores lie on,
\* just below and just above the thresholds, and at both ends of the scale.
MaxScored == 2

BoundaryScores == {0, 2499, 2500, 2501, 3999, 4000, 4001, 5499, 5500, 5501, 10000}

ScoredChunk(score) == [ChunkResult("c1") EXCEPT !.relevance_score = score]

ScoredLists ==
    UNION {[1..k -> {ScoredChunk(score) : score \in BoundaryScores}]
           : k \in 0..MaxScored}

ConfidenceStates ==
    {Merge([query |-> question], chunks) :
        question \in Questions,
        chunks   \in Entries("retrieved_chunks", ScoredLists)}

InitConfidence ==
    /\ pc = "call_evaluate_confidence"
    /\ state \in ConfidenceStates
    /\ calls = <<>>
    /\ triage = None
    /\ trace = <<>>
    /\ service = <<>>
    /\ input = None
    /\ llm = None
    /\ settings = ValidSettings
    /\ client = NewClient
    /\ prompt = None

CallEvaluateConfidence ==
    /\ pc = "call_evaluate_confidence"
    /\ trace' = Append(trace, "evaluate_confidence")
    /\ input' = Some(state)
    /\ state' = Merge(state, evaluate_confidence(state))
    /\ pc' = "returned"
    /\ UNCHANGED <<calls, triage, service, llm, settings, client, prompt>>

NextConfidence == CallEvaluateConfidence

SpecConfidence == InitConfidence /\ [][NextConfidence]_vars

\* ------------------------------------------------------------------ properties

Last(s) == s[Len(s)]
IsPrefix(s, t) == Len(s) <= Len(t) /\ SubSeq(t, 1, Len(s)) = s
Count(s, x) == Cardinality({i \in 1..Len(s) : s[i] = x})

\* The node executions that ran to completion.
Completed ==
    IF pc \in {"raised", "blocked"}
    THEN SubSeq(trace, 1, Len(trace) - 1)
    ELSE trace

Attempts == state["reformulation_attempts"]

\* C1: when every LLM and search call returns, a run started at assess_query
\* reaches respond and then END: no run cycles forever through
\* reformulate_query -> search_corpus -> evaluate_confidence.
C1_Terminates ==
    [](pc \notin {"raised", "blocked"}) =>
        <>(pc = "END" /\ Last(trace) = "respond")

C1_Witness == pc = "END" /\ Attempts = 2 /\ Count(trace, "search_corpus") = 3

\* C2: reformulate_query executes at most 2 times in a request;
\* reformulation_attempts starts at 0, counts exactly the reformulations that
\* completed, and never exceeds 2.
C2_AttemptsBounded ==
    /\ Count(trace, "reformulate_query") <= 2
    /\ Attempts = Count(Completed, "reformulate_query")
    /\ Attempts \in 0..2

C2_Witness ==
    pc = "respond" /\ Attempts = 2 /\ state["confidence"] = "low"

\* C3: reformulate_query is the next node only right after evaluate_confidence,
\* with confidence low and fewer than 2 attempts.
C3_ReformulateOnlyWhenLow ==
    pc = "reformulate_query" =>
        /\ Last(trace) = "evaluate_confidence"
        /\ state["confidence"] = "low"
        /\ Attempts < 2

C3_Witness == pc = "reformulate_query" /\ Attempts = 1

\* C4: the nodes run in the order assess_query, then respond, or search_corpus,
\* evaluate_confidence, at most two (reformulate_query, search_corpus,
\* evaluate_confidence), then (synthesize_answer, validate_citations, respond) or
\* respond alone; nothing runs after respond.
Retry == <<"reformulate_query", "search_corpus", "evaluate_confidence">>

AllowedRuns ==
    {<<"assess_query", "respond">>}
    \cup
    {<<"assess_query", "search_corpus", "evaluate_confidence">> \o retries \o ending :
        retries \in {<<>>, Retry, Retry \o Retry},
        ending  \in {<<"synthesize_answer", "validate_citations", "respond">>,
                     <<"respond">>}}

C4_StageSequence ==
    /\ \E run \in AllowedRuns : IsPrefix(trace, run)
    /\ pc = "END" => trace \in AllowedRuns

C4_Witness == pc = "END" /\ Len(trace) = 12

\* C5: every request ends with a non-empty answer and no exception leaves the
\* workflow, also when an LLM call or a search call raises.
C5_AlwaysAnswers ==
    /\ pc # "raised"
    /\ pc = "END" => state["answer"] # None /\ state["answer"][1] # <<>>

\* C6: the two-pass result is the first top_k of: the filtered results in their
\* order, then the unfiltered results whose chunk_id is not among the filtered
\* ones, in their order; no filtered hit follows an unfiltered-only hit.
FilteredIds == {calls[1].result[i].chunk_id : i \in 1..Len(calls[1].result)}

C6_MergeOrder ==
    (pc = "returned" /\ Len(calls) = 2) =>
        LET F == calls[1].result
            U == calls[2].result
            NotInF(c) == c.chunk_id \notin FilteredIds
            chunks == state["retrieved_chunks"]
        IN  /\ chunks = Take(F \o SelectSeq(U, NotInF), calls[1].top_k)
            /\ \A i, j \in 1..Len(chunks) :
                   (i < j /\ chunks[j].chunk_id \in FilteredIds)
                       => chunks[i].chunk_id \in FilteredIds

\* a filtered hit ahead of an unfiltered-only hit of higher relevance
C6_Witness ==
    /\ pc = "returned"
    /\ Len(calls) = 2
    /\ Len(state["retrieved_chunks"]) = 2
    /\ state["retrieved_chunks"][1].chunk_id \in FilteredIds
    /\ state["retrieved_chunks"][2].chunk_id \notin FilteredIds
    /\ state["retrieved_chunks"][1].relevance_score
           < state["retrieved_chunks"][2].relevance_score

\* C7: in a run of the graph, the hints assess_query returns reach search_corpus:
\* with both dates resolved it issues a filtered and an unfiltered search, and a
\* top_k_hint is the top_k of its searches.
C7_HintsReachSearch ==
    (pc = "evaluate_confidence" /\ triage # None) =>
        /\ triage[1].metadata_hints # None =>
              /\ Len(calls) = 2
              /\ calls[1].where = Some([gte |-> triage[1].metadata_hints[1].date_start,
                                        lte |-> triage[1].metadata_hints[1].date_end])
              /\ calls[2].where = None
        /\ triage[1].top_k_hint # None =>
              \A i \in 1..Len(calls) : calls[i].top_k = triage[1].top_k_hint[1]

\* C8: search_corpus issues the filtered call and then the unfiltered call, each
\* for top_k, exactly when metadata_hints carries both date bounds; otherwise it
\* issues one unfiltered call and returns its result.
BothBounds(st) ==
    /\ "metadata_hints" \in DOMAIN st
    /\ st["metadata_hints"] # None
    /\ {"date_start", "date_end"} \subseteq DOMAIN st["metadata_hints"][1]
    /\ st["metadata_hints"][1]["date_start"] # None
    /\ st["metadata_hints"][1]["date_end"] # None

RequestedTopK(st) ==
    IF "top_k_hint" \in DOMAIN st /\ st["top_k_hint"] # None
    THEN st["top_k_hint"][1]
    ELSE 10

C8_TwoCallsIffBothBounds ==
    pc = "returned" =>
        IF BothBounds(state)
        THEN /\ Len(calls) = 2
             /\ calls[1].where = Some([gte |-> state["metadata_hints"][1]["date_start"],
                                       lte |-> state["metadata_hints"][1]["date_end"]])
             /\ calls[2].where = None
             /\ calls[1].top_k = RequestedTopK(state)
             /\ calls[2].top_k = RequestedTopK(state)
        ELSE /\ Len(calls) = 1
             /\ calls[1].where = None
             /\ calls[1].top_k = RequestedTopK(state)
             /\ state["retrieved_chunks"] = calls[1].result

\* C9: after search_corpus no two retrieved chunks share a chunk_id.
C9_NoDuplicateChunks ==
    pc = "returned" =>
        \A i, j \in 1..Len(state["retrieved_chunks"]) :
            i # j => state["retrieved_chunks"][i].chunk_id
                         # state["retrieved_chunks"][j].chunk_id

\* both passes returned a common chunk
C9_Witness ==
    /\ pc = "returned"
    /\ Len(calls) = 2
    /\ \E i \in 1..Len(calls[2].result) : calls[2].result[i].chunk_id \in FilteredIds
    /\ Len(state["retrieved_chunks"]) > Len(calls[1].result)

Given(key, default) == Get(input[1], key, default)

CandidateIds(chunks) == {chunks[k].chunk_id : k \in 1..Len(chunks)}

\* The positions of the citations that name a candidate, and the j-th of them.
KeptPositions(citations, chunks) ==
    {i \in 1..Len(citations) : citations[i].chunk_id \in CandidateIds(chunks)}
KeptPosition(kept, j) ==
    CHOOSE i \in kept : Cardinality({k \in kept : k <= i}) = j

\* Two citations agree on every field but the excerpt.
SameCitation(a, b) ==
    [a EXCEPT !.quoted_excerpt = <<>>] = [b EXCEPT !.quoted_excerpt = <<>>]

\* C11: validate_citations returns a subsequence of the citations it is given:
\* exactly those whose chunk_id is the chunk_id of a current candidate, in
\* their original order, none added.
C11_ValidSubsequence ==
    (pc = "returned" /\ trace = <<"validate_citations">>) =>
        LET before == Given("citations", <<>>)
            after  == state["citations"]
            kept   == KeptPositions(before, Given("retrieved_chunks", <<>>))
        IN  /\ Len(after) = Cardinality(kept)
            /\ \A j \in 1..Len(after) :
                    SameCitation(after[j], before[KeptPosition(kept, j)])

\* Three citations given; the middle one names no candidate and is removed,
\* the other two name different candidates and stay in order.
C11_Witness ==
    /\ pc = "returned" /\ trace = <<"validate_citations">>
    /\ Len(Given("citations", <<>>)) = 3
    /\ KeptPositions(Given("citations", <<>>), Given("retrieved_chunks", <<>>)) = {1, 3}
    /\ Len(state["citations"]) = 2
    /\ state["citations"][1].chunk_id # state["citations"][2].chunk_id

\* C14: after validate_citations every surviving citation's quoted_excerpt is
\* the first 200 characters (the whole text when shorter) of the text of the
\* candidate it cites, whatever excerpt it carried before.
C14_ExcerptRefreshed ==
    (pc = "returned" /\ trace = <<"validate_citations">>) =>
        LET chunks == Given("retrieved_chunks", <<>>)
        IN  \A j \in 1..Len(state["citations"]) :
                \E k \in 1..Len(chunks) :
                    /\ chunks[k].chunk_id = state["citations"][j].chunk_id
                    /\ state["citations"][j].quoted_excerpt =
                           IF Len(chunks[k].chunk_text) <= 200
                           THEN chunks[k].chunk_text
                           ELSE SubSeq(chunks[k].chunk_text, 1, 200)

\* A citation that came with another excerpt survives, and its candidate's
\* text is longer than 200 characters.
C14_Witness ==
    /\ pc = "returned" /\ trace = <<"validate_citations">>
    /\ Len(Given("citations", <<>>)) = 1
    /\ Given("citations", <<>>)[1].quoted_excerpt = StaleExcerpt
    /\ Len(state["citations"]) = 1
    /\ Len(state["citations"][1].quoted_excerpt) = 200
    /\ \E k \in 1..Len(Given("retrieved_chunks", <<>>)) :
           /\ Given("retrieved_chunks", <<>>)[k].chunk_id = state["citations"][1].chunk_id
           /\ Len(Given("retrieved_chunks", <<>>)[k].chunk_text) > 200

\* ------------------------------------------------------------------ numbering

\* respond takes its grounded branch on this state.
Grounded(st) ==
    /\ Get(st, "confidence", "insufficient") # "insufficient"
    /\ Get(st, "answer", None) # None
    /\ Get(st, "answer", None)[1] # <<>>

SourceIndices(citations) == {citations[i].source_index : i \in 1..Len(citations)}

\* The position of the citation with source_index n.
NumberOf(citations, n) ==
    CHOOSE i \in 1..Len(citations) : citations[i].source_index = n

\* C12: in every grounded response the workflow produces with N citations the
\* cited source_index values correspond one to one to 1..N, the i-th citation
\* having number i; in the body every span that holds a cited source_index
\* becomes the list of the numbers of its cited indices, and everything else
\* stays; the footer has exactly N entries numbered 1..N, entry i describing
\* the i-th citation, and there is no footer when N = 0.
C12_DenseNumbering ==
    [][(pc = "respond" /\ pc' = "END" /\ Grounded(state)) =>
        LET citations == state["citations"]
            N         == Len(citations)
            before    == state["answer"][1]
            after     == state'["answer"][1]
        IN  /\ state'["citations"] = citations
            /\ \A i, j \in 1..N :
                   i # j => citations[i].source_index # citations[j].source_index
            /\ Len(after) = Len(before) + (IF N > 0 THEN 1 ELSE 0)
            /\ \A k \in 1..Len(before) :
                   LET cited == IF before[k].t = "src"
                                THEN SelectSeq(before[k].nums,
                                               LAMBDA n : n \in SourceIndices(citations))
                                ELSE <<>>
                   IN  IF cited # <<>>
                       THEN /\ after[k].t = "ref"
                            /\ after[k].nums =
                                   [m \in 1..Len(cited) |-> NumberOf(citations, cited[m])]
                       ELSE after[k] = before[k]
            /\ N > 0 =>
                   /\ after[Len(after)].t = "sources"
                   /\ Len(after[Len(after)].entries) = N
                   /\ \A i \in 1..N :
                          LET entry == after[Len(after)].entries[i]
                          IN  /\ entry.n = i
                              /\ entry.document_name = citations[i].document_name
                              /\ entry.document_date = citations[i].document_date
                              /\ entry.section_header = citations[i].section_header
                              /\ entry.chunk = ChunkIdPrefix(citations[i].chunk_id)
            /\ N = 0 => \A k \in 1..Len(after) : after[k].t # "sources"
      ]_vars

\* A grounded response whose first citation is the model's source 2: the span
\* "[Source 2, Source 1]" reads "[1, 2]" and the footer has two entries.
C12_Witness ==
    /\ pc = "END"
    /\ trace[Len(trace)] = "respond"
    /\ state["confidence"] \in {"high", "medium"}
    /\ Len(state["citations"]) = 2
    /\ state["citations"][1].source_index = 2
    /\ state["answer"][1][1] = Ref(<<1, 2>>)
    /\ state["answer"][1][Len(state["answer"][1])].t = "sources"
    /\ Len(state["answer"][1][Len(state["answer"][1])].entries) = 2

\* ------------------------------------------------------------------ citation parsing

\* The integers inside the Source spans of a text, in reading order.
RECURSIVE SpanIntegers(_)
SpanIntegers(content) ==
    IF content = <<>> THEN <<>>
    ELSE (IF Head(content).t = "src" THEN Head(content).nums ELSE <<>>)
         \o SpanIntegers(Tail(content))

\* The positions in such a list of the first appearances of the integers in 1..n.
FirstInRange(all, n) ==
    {i \in 1..Len(all) : /\ all[i] \in 1..n
                          /\ \A j \in 1..(i - 1) : all[j] # all[i]}

\* C13: the citations synthesize_answer returns are exactly the integers found
\* inside the Source spans of the answer text, in order of first appearance,
\* repeats removed, those outside 1..len(candidates) discarded without raising;
\* a citation keeps its integer n as source_index and carries the fields of
\* the n-th candidate; the returned answer is the text as it came.  (The list
\* is thereby a function of the text and the candidates: parsing the same text
\* again gives it again.)
C13_CitationsParsed ==
    (trace = <<"synthesize_answer">> /\ llm # None) =>
        LET chunks    == Given("retrieved_chunks", <<>>)
            all       == SpanIntegers(llm[1])
            first     == FirstInRange(all, Len(chunks))
            citations == state["citations"]
        IN  /\ pc = "returned"
            /\ state["answer"] = Some(llm[1])
            /\ Len(citations) = Cardinality(first)
            /\ \A m \in 1..Len(citations) :
                   LET n     == all[KeptPosition(first, m)]
                       chunk == chunks[n]
                   IN  /\ citations[m].source_index = n
                       /\ citations[m].chunk_id = chunk.chunk_id
                       /\ citations[m].document_name = chunk.document_name
                       /\ citations[m].document_date = chunk.document_date
                       /\ citations[m].section_header = chunk.section_header
                       /\ citations[m].relevance_score = chunk.relevance_score

\* "[Source 2, 0] [Source 2, Source 1]" over two candidates: 0 is out of range,
\* the second 2 is a repeat, and the citations are sources 2 and 1 in that order.
C13_Witness ==
    /\ pc = "returned" /\ trace = <<"synthesize_answer">>
    /\ llm = Some(<<Src(<<2, 0>>), Src(<<2, 1>>)>>)
    /\ Len(Given("retrieved_chunks", <<>>)) = 2
    /\ Len(state["citations"]) = 2
    /\ state["citations"][1].source_index = 2
    /\ state["citations"][2].source_index = 1
    /\ state["citations"][1].chunk_id = Given("retrieved_chunks", <<>>)[2].chunk_id

\* ------------------------------------------------------------------ uncertainty

\* The state holds no answer text: the key is missing, null or the empty text.
NoAnswerText(st) == Get(st, "answer", None) = None \/ Get(st, "answer", None)[1] = <<>>

\* C15: called with confidence "insufficient" or with no answer text, respond
\* returns the uncertainty template and an empty citation list, whatever answer
\* and citations the state held; the template names the original query, then
\* the reformulated query when one is set, and previews the first candidates,
\* at most 3, each with its name and its score to two decimals.
C15_UncertaintyResponse ==
    (/\ pc = "returned" /\ trace = <<"respond">>
     /\ (Given("confidence", "high") = "insufficient" \/ NoAnswerText(input[1]))) =>
        LET chunks       == Given("retrieved_chunks", <<>>)
            reformulated == Given("reformulated_query", None)
            answer       == state["answer"]
        IN  /\ "citations" \in DOMAIN state /\ state["citations"] = <<>>
            /\ answer # None /\ Len(answer[1]) = 1 /\ answer[1][1].t = "uncertain"
            /\ answer[1][1].searched =
                   <<Given("query", "")>> \o
                   (IF reformulated # None /\ reformulated[1] # ""
                    THEN <<reformulated[1]>> ELSE <<>>)
            /\ Len(answer[1][1].matches) <= 3
            /\ Len(answer[1][1].matches) = Min(3, Len(chunks))
            /\ \A i \in 1..Len(answer[1][1].matches) :
                   /\ answer[1][1].matches[i].n = i
                   /\ answer[1][1].matches[i].document_name = chunks[i].document_name
                   /\ 100 * answer[1][1].matches[i].score - chunks[i].relevance_score
                          \in -50..50

\* Confidence "insufficient" on a state that holds an answer, two citations, a
\* reformulated query and four candidates: three previews, no citations.
C15_Witness ==
    /\ pc = "returned" /\ trace = <<"respond">>
    /\ Given("confidence", "high") = "insufficient"
    /\ ~NoAnswerText(input[1])
    /\ Len(Given("citations", <<>>)) = 2
    /\ Given("reformulated_query", None) = Some("r1")
    /\ Len(Given("retrieved_chunks", <<>>)) = 4
    /\ state["citations"] = <<>>
    /\ Len(state["answer"][1][1].matches) = 3
    /\ Len(state["answer"][1][1].searched) = 2

\* ------------------------------------------------------------------ no retrieval

\* C16: when triage sets needs_retrieval to false the workflow goes from triage
\* straight to respond: the search function is never called, the search service
\* is never asked, and no evaluate, reformulate, synthesize or validate runs.
C16_NoRetrievalSkipsSearch ==
    (triage # None /\ ~triage[1].needs_retrieval) =>
        /\ calls = <<>>
        /\ service = <<>>
        /\ \/ pc = "respond" /\ trace = <<"assess_query">>
           \/ pc = "END" /\ trace = <<"assess_query", "respond">>

C16_Witness ==
    /\ triage # None /\ ~triage[1].needs_retrieval
    /\ pc = "END"
    /\ trace = <<"assess_query", "respond">>

\* ------------------------------------------------------------------ search failures

\* The replies of the search service that are failures.
FailureKinds == {"error", "timeout", "transport"}

\* C17: a failure of the search service (an error reply, a timeout, a
\* transport failure) reaches the workflow as a failure: the run ends in an
\* exception, and is never continued on an empty candidate list.
C17_SearchFailureSurfaces ==
    (\E i \in 1..Len(service) : service[i] \in FailureKinds) => pc = "raised"

\* ------------------------------------------------------------------ date filter

\* ISO dates compare as strings in calendar order; the same order on numbers.
DateOrd(d) ==
    CASE d = "2024-11-07" -> 20241107
      [] d = "2024-12-01" -> 20241201
      [] d = "2024-12-18" -> 20241218
      [] d = "2024-12-31" -> 20241231
      [] d = "2025-01-29" -> 20250129

\* C18: the search function ask() builds accepts the date filter search_corpus
\* passes: unless the search service fails, the filtered call returns, and
\* returns only candidates dated within [date_start, date_end] (none when no
\* document matches).
C18_DateFilterAccepted ==
    (/\ trace = <<"search_corpus">>
     /\ calls # <<>>
     /\ calls[1].where # None
     /\ calls[1].where[1].gte # None /\ calls[1].where[1].lte # None
     /\ \A i \in 1..Len(service) : service[i] \notin FailureKinds) =>
        /\ pc # "raised"
        /\ \A k \in 1..Len(calls[1].result) :
               /\ DateOrd(calls[1].where[1].gte[1])
                      <= DateOrd(calls[1].result[k].document_date)
               /\ DateOrd(calls[1].result[k].document_date)
                      <= DateOrd(calls[1].where[1].lte[1])

\* ------------------------------------------------------------------ triage

\* C19: when the triage LLM call fails (timeout, network error) the request is
\* not aborted: assess_query returns the fallback triage and the run goes on.
C19_TriageFailureFallsBack ==
    (trace # <<>> /\ trace[Len(trace)] = "assess_query") =>
        (pc # "raised" /\ triage # None)

\* The reply, once a leading fence (bare or json) and a trailing fence are
\* removed, is a JSON object.
ParsesAsObject(r) ==
    /\ r.body = "object"
    /\ \/ r.open = "" /\ ~r.close
       \/ r.open \in {"fence", "fence_json"}

\* The same reply without its fence.
Unfenced(r) == [r EXCEPT !.open = "", !.close = FALSE]

C21_CallsTimeBounded == pc # "blocked"

\* ------------------------------------------------------------------ confidence

\* The position of a level on the scale insufficient < low < medium < high.
Rank(level) ==
    CASE level = "insufficient" -> 0
      [] level = "low"          -> 1
      [] level = "medium"       -> 2
      [] level = "high"         -> 3

\* The level evaluate_confidence gives a list of candidates.
LevelOf(chunks) == evaluate_confidence([retrieved_chunks |-> chunks]).confidence

\* mean(a) <= mean(b), the mean of no candidates being 0.
MeanLeq(a, b) ==
    SumScores(a) * Max(1, Len(b)) <= SumScores(b) * Max(1, Len(a))

\* C22: evaluate_confidence sets confidence, and nothing else, to high when the
\* mean relevance score of the candidates is >= 0.55, medium when >= 0.40, low
\* when >= 0.25, insufficient otherwise and when there are no candidates; a mean
\* equal to a threshold belongs to the upper level, and a larger mean never
\* gives a lower level.
C22_ConfidenceSteps ==
    pc = "returned" =>
        LET chunks == Given("retrieved_chunks", <<>>)
            n      == Len(chunks)
            sum    == SumScores(chunks)
            level  == IF n = 0 THEN "insufficient"
                      ELSE IF sum >= 5500 * n THEN "high"
                      ELSE IF sum >= 4000 * n THEN "medium"
                      ELSE IF sum >= 2500 * n THEN "low"
                      ELSE "insufficient"
        IN  /\ state = Merge(input[1], [confidence |-> level])
            /\ \A other \in ScoredLists :
                   MeanLeq(chunks, other) => Rank(level) <= Rank(LevelOf(other))

\* Two candidates whose mean is exactly 0.55, neither of them at 0.55.
C22_Witness ==
    /\ pc = "returned"
    /\ Len(Given("retrieved_chunks", <<>>)) = 2
    /\ Given("retrieved_chunks", <<>>)[1].relevance_score = 5499
    /\ Given("retrieved_chunks", <<>>)[2].relevance_score = 5501
    /\ state["confidence"] = "high"

\* ------------------------------------------------------------------ effective query

\* The reformulated query of the state search_corpus was given, None when the
\* state has none.
GivenReformulated == Given("reformulated_query", None)

\* C23, as stated: every search call uses the original query while no
\* reformulation has happened and the latest reformulated query once one has;
\* both passes of a two-pass search use the same query.
C23_EffectiveQuery ==
    trace = <<"search_corpus">> =>
        /\ \A i \in 1..Len(calls) :
               calls[i].query = IF GivenReformulated = None
                                THEN input[1]["query"]
                                ELSE GivenReformulated[1]
        /\ \A i, j \in 1..Len(calls) : calls[i].query = calls[j].query

\* C23, amended: every search call uses the latest reformulated query when
\* there is one and it is not empty, and the original query otherwise (no
\* reformulation yet, or a reformulation that came back empty); both passes of
\* a two-pass search use the same query.
C23_NonEmptyEffectiveQuery ==
    trace = <<"search_corpus">> =>
        /\ \A i \in 1..Len(calls) :
               calls[i].query = IF GivenReformulated \notin {None, Some("")}
                                THEN GivenReformulated[1]
                                ELSE input[1]["query"]
        /\ \A i, j \in 1..Len(calls) : calls[i].query = calls[j].query

\* A two-pass search after a reformulation: both calls ask the reformulated
\* query.
C23_Witness ==
    /\ pc = "returned"
    /\ GivenReformulated = Some("r1")
    /\ Len(calls) = 2
    /\ calls[1].where # None /\ calls[2].where = None
    /\ calls[1].query = "r1" /\ calls[2].query = "r1"

\* ------------------------------------------------------------------ hints

\* A date bound that is present and not empty.
NonEmpty(date) == date \notin {None, Some("")}

\* C24: whatever the LLM replies, the hints assess_query returns are well
\* formed: metadata_hints is null or holds a non-empty date_start and a
\* non-empty date_end, and is null when the reply gives fewer than two bounds;
\* top_k_hint is null or an integer in 1..50, and is null when the reply gives
\* none, null or a value outside 1..50.
C24_HintsWellFormed ==
    (pc = "returned" /\ llm # None) =>
        LET hints == triage[1].metadata_hints
            top_k == triage[1].top_k_hint
        IN  /\ \/ hints = None
               \/ /\ DOMAIN hints[1] = {"date_start", "date_end"}
                  /\ NonEmpty(hints[1].date_start)
                  /\ NonEmpty(hints[1].date_end)
            /\ ~(NonEmpty(llm[1].date_start) /\ NonEmpty(llm[1].date_end)) =>
                   hints = None
            /\ top_k = None \/ top_k[1] \in 1..50
            /\ (llm[1].top_k_hint = None \/ llm[1].top_k_hint[1] \notin 1..50) =>
                   top_k = None

\* A JSON object with only a start date and a top_k_hint of 51: no hint is
\* returned.
C24_Witness ==
    /\ pc = "returned"
    /\ llm # None
    /\ llm[1].body = "object" /\ llm[1].open = "" /\ ~llm[1].close
    /\ NonEmpty(llm[1].date_start) /\ llm[1].date_end = None
    /\ llm[1].top_k_hint = Some(51)
    /\ triage[1].metadata_hints = None
    /\ triage[1].top_k_hint = None

\* ------------------------------------------------------------------ configuration

\* The credential the configured provider requires is missing.
MissingCredential(cfg) ==
    \/ Lower(cfg.fedquery_llm_provider) = "anthropic" /\ cfg.anthropic_api_key = ""
    \/ Lower(cfg.fedquery_llm_provider) = "google" /\ cfg.google_api_key = ""

\* C25: a missing required credential is fatal at startup only: ask exits
\* before a search backend is built, before the search-service subprocess is
\* started and before any workflow stage runs, so the error never surfaces in
\* the middle of a request.
C25_ConfigErrorAtStartup ==
    MissingCredential(settings) =>
        /\ pc \in {"ask", "exit"}
        /\ client = NewClient
        /\ trace = <<>>

\* ------------------------------------------------------------------ shutdown

\* C26: shutdown of the search client is deterministic: once close() has
\* returned, whatever the client's state was (never connected, connected,
\* cleanup raising or timing out, a call in flight), session, exit stack, loop
\* and thread are released and the background thread has stopped; and a search
\* or get_document issued after close fails with "not connected".
C26_CloseReleases ==
    /\ [](pc = "close_returned" =>
            /\ ~client._session /\ ~client._exit_stack
            /\ ~client._loop /\ ~client._thread
            /\ ~client.running)
    /\ [][(pc = "close_returned" /\ client.call = "none"
                                 /\ client'.call # "none") =>
             client'.call = "not_connected"]_vars

\* ------------------------------------------------------------------ grounded answers

\* The answer is the uncertainty template.
IsTemplate(answer) ==
    answer # None /\ Len(answer[1]) = 1 /\ answer[1][1].t = "uncertain"

\* C27: a grounded answer is returned only when the confidence of the last
\* search is high or medium; when it is low with the retries used up, or
\* insufficient, synthesize_answer has not run and the response is the
\* uncertainty template with no citations.
C27_GroundedOnlyWhenConfident ==
    LET confidence == state["confidence"]
    IN  /\ (\E i \in 1..Len(trace) : trace[i] = "synthesize_answer") =>
               confidence \in {"high", "medium"}
        /\ pc = "END" =>
               /\ ~IsTemplate(state["answer"]) => confidence \in {"high", "medium"}
               /\ confidence = "low" => Attempts = 2
               /\ confidence \in {"low", "insufficient"} =>
                      /\ \A i \in 1..Len(trace) : trace[i] # "synthesize_answer"
                      /\ IsTemplate(state["answer"])
                      /\ state["citations"] = <<>>

\* Low confidence after both reformulations: the template, no citations.
C27_Witness ==
    /\ pc = "END"
    /\ state["confidence"] = "low"
    /\ Attempts = 2
    /\ Count(trace, "search_corpus") = 3
    /\ IsTemplate(state["answer"])
    /\ state["citations"] = <<>>

\* ------------------------------------------------------------------ no-retrieval response

\* Triage said the question needs no retrieval.
NoRetrieval == triage # None /\ ~triage[1].needs_retrieval

\* C28: when triage yields needs_retrieval = false the final response is the
\* insufficient-evidence template with an empty list of best matches and no
\* citations: respond sees the initial confidence "insufficient" and a null
\* answer, and no LLM answer is generated.
C28_NoRetrievalResponse ==
    /\ (NoRetrieval /\ pc = "respond") =>
           state["confidence"] = "insufficient" /\ state["answer"] = None
    /\ (NoRetrieval /\ pc = "END") =>
           /\ \A i \in 1..Len(trace) : trace[i] # "synthesize_answer"
           /\ state["answer"] = Some(<<[t        |-> "uncertain",
                                        searched |-> <<state["query"]>>,
                                        matches  |-> <<>>]>>)
           /\ state["citations"] = <<>>

C28_Witness ==
    /\ NoRetrieval
    /\ pc = "END"
    /\ IsTemplate(state["answer"])
    /\ state["answer"][1][1].matches = <<>>
    /\ state["citations"] = <<>>

\* ------------------------------------------------------------------ frame

\* The fields a stage may write; grounded: respond takes its grounded branch.
Writes(node, grounded) ==
    CASE node = "assess_query"        -> {"needs_retrieval", "metadata_hints", "top_k_hint"}
      [] node = "search_corpus"       -> {"retrieved_chunks"}
      [] node = "evaluate_confidence" -> {"confidence"}
      [] node = "reformulate_query"   -> {"reformulated_query", "reformulation_attempts"}
      [] node = "synthesize_answer"   -> {"answer", "citations"}
      [] node = "validate_citations"  -> {"citations"}
      [] node = "respond"             -> IF grounded THEN {"answer"}
                                         ELSE {"answer", "citations"}

\* C29: no stage changes the original query; the reformulation call is given
\* the original query, never an earlier reformulation; and every stage writes
\* only its own fields: reformulate_query the reformulated query and the
\* attempt count, search_corpus the candidates, evaluate_confidence the
\* confidence, synthesize_answer answer and citations, validate_citations the
\* citations, respond's grounded branch the answer alone.
C29_FrameEffects ==
    [][trace' # trace =>
          LET node == trace'[Len(trace')]
          IN  /\ DOMAIN state' = DOMAIN state
              /\ state'["query"] = state["query"]
              /\ \A k \in DOMAIN state :
                     state'[k] # state[k] => k \in Writes(node, Grounded(state))
              /\ node = "reformulate_query" =>
                     /\ prompt' # None
                     /\ prompt'[1].node = "reformulate_query"
                     /\ prompt'[1].query = state["query"]]_vars

\* A finished run that reformulated twice, with a reformulated query that
\* differs from the original, and then answered with citations.
C29_Witness ==
    /\ pc = "END"
    /\ Attempts = 2
    /\ state["reformulated_query"] \notin {None, Some(state["query"])}
    /\ Count(trace, "synthesize_answer") = 1
    /\ ~IsTemplate(state["answer"])
    /\ state["citations"] # <<>>

\* ------------------------------------------------------------------ mixed spans

\* The indices of a span that are cited, in the order of the span.
CitedIn(nums, citations) ==
    SelectSeq(nums, LAMBDA n : n \in SourceIndices(citations))

\* C30: in respond's grounded branch a bracketed Source span that mixes cited
\* and uncited indices is rewritten to the dense numbers of its cited indices
\* alone, and a span without any cited index stays as it is; so afterwards no
\* remaining Source span mentions a cited index, and every number of a
\* rewritten span lies in 1..N.
C30_MixedSpans ==
    (pc = "returned" /\ trace = <<"respond">> /\ Grounded(input[1])) =>
        LET citations == Given("citations", <<>>)
            N         == Len(citations)
            before    == input[1]["answer"][1]
            after     == state["answer"][1]
        IN  /\ Len(after) >= Len(before)
            /\ \A k \in 1..Len(before) :
                   before[k].t = "src" =>
                       LET cited == CitedIn(before[k].nums, citations)
                       IN  IF cited # <<>>
                           THEN /\ after[k].t = "ref"
                                /\ Len(after[k].nums) = Len(cited)
                                /\ \A m \in 1..Len(cited) :
                                       /\ after[k].nums[m] = NumberOf(citations, cited[m])
                                       /\ after[k].nums[m] \in 1..N
                           ELSE after[k] = before[k]
            /\ \A k \in 1..Len(after) :
                   after[k].t = "src" => CitedIn(after[k].nums, citations) = <<>>

\* "[Source 6, Source 1, Source 9]" with sources 6 and 1 cited, in this order,
\* and 9 not: the span reads "[1, 2]", and "[Source 9]" stays.
C30_Witness ==
    /\ pc = "returned" /\ trace = <<"respond">>
    /\ Grounded(input[1])
    /\ Len(Given("citations", <<>>)) = 2
    /\ input[1]["answer"][1][1] = Src(<<6, 1, 9>>)
    /\ state["answer"][1][1] = Ref(<<1, 2>>)
    /\ state["answer"][1][3] = Src(<<9>>)

====
